---- MODULE Spec2Model ----
(***************************************************************************)
(* Model of the infoberry kiosk client (src/src/info_berry/client):        *)
(* ContentBank (content.py), Display (display.py) and the Player           *)
(* controller with its rotate / refresh / config-watch loops (player.py).  *)
(*                                                                         *)
(* An optional Python value (None or x) is the sequence <<>> or <<x>>.     *)
(* Positions are 0-based as in the source; Items[i + 1] is entry i.        *)
(* Content.id is regenerated on every load and read by no decision of the  *)
(* code modelled here; items are (kind, source, duration).  A text (a      *)
(* source, a type name, a message) is a sequence of pieces, each one       *)
(* character or a run of letters, spaces and colons kept together.         *)
(***************************************************************************)
EXTENDS Integers, Sequences, FiniteSets, TLC

\* ------------------------------------------------------------------ bounds
\* Longest playlist handed to the ContentBank operations.
MaxLen == 3

\* Number of times the configuration file is rewritten while the player runs.
MaxWrites == 2

\* Longest item list handed to ContentBank.diff.
MaxDiffLen == 2

\* Number of render targets resolved one after the other.
MaxResolves == 3

\* Number of polls of the playlist by the polling client.
MaxPolls == 3

\* ----------------------------------------------------------- content model
None == <<>>

Some(x) == <<x>>

Item(k, s, d) == [kind |-> k, source |-> s, duration |-> d]

SrcA == <<"a">>

SrcB == <<"b">>

ItemUniverse ==
    { Item("url", SrcA, Some(10)),
      Item("url", SrcB, None),
      Item("image", SrcA, None) }

Key(it) == <<it.kind, it.source>>

SeqsUpTo(S, n) == UNION { [1..k -> S] : k \in 0..n }

\* -------------------------------------------------------------- ContentBank
\* next_index stepping by two.
next_index_skip(items, index) ==
    IF items = <<>> THEN index ELSE (index + 2) % Len(items)

\* next_index: the cursor after one call (its return value when the bank is
\* non-empty; 0 is returned and the cursor left alone when it is empty).
next_index(items, index) ==
    IF items = <<>> THEN index ELSE (index + 1) % Len(items)

\* The first position of new whose key is k (next(...) over enumerate),
\* or -1 where the generator is exhausted (StopIteration).
FirstMatch(new, k) ==
    IF \E i \in 1..Len(new) : Key(new[i]) = k
    THEN (CHOOSE i \in 1..Len(new) :
              /\ Key(new[i]) = k
              /\ \A j \in 1..(i - 1) : Key(new[j]) # k) - 1
    ELSE -1

\* set_items relocating by position instead of by key.
set_items_by_index(old, index, new) ==
    IF new = <<>> THEN 0
    ELSE IF index < Len(new) THEN index ELSE 0

\* set_items without the fall-back to 0 when no key matches.
set_items_keep(old, index, new) ==
    IF new = <<>> THEN 0
    ELSE IF index >= Len(old) THEN 0
    ELSE IF FirstMatch(new, Key(old[index + 1])) = -1 THEN index
    ELSE FirstMatch(new, Key(old[index + 1]))

\* set_items: the cursor after replacing old by new.  old[index] raising
\* IndexError (old empty) and next() raising StopIteration both end in the
\* except branch, cursor 0.
set_items(old, index, new) ==
    IF new = <<>> THEN 0
    ELSE IF index >= Len(old) THEN 0
    ELSE IF FirstMatch(new, Key(old[index + 1])) = -1 THEN 0
    ELSE FirstMatch(new, Key(old[index + 1]))

\* The last position of items whose key is k: the value a dict
\* comprehension over enumerate(items) keeps for k.
LastPos(items, k) ==
    (CHOOSE i \in 1..Len(items) :
         /\ Key(items[i]) = k
         /\ \A j \in (i + 1)..Len(items) : Key(items[j]) # k) - 1

Keys(items) == {Key(items[i]) : i \in 1..Len(items)}

\* diff reporting a key of both lists as modified whatever its durations.
diff_all_modified(old, new) ==
    [removed |-> {LastPos(old, k) : k \in Keys(old) \ Keys(new)},
     added |-> {LastPos(new, k) : k \in Keys(new) \ Keys(old)},
     modified |-> {<<LastPos(old, k), LastPos(new, k)>> :
                      k \in Keys(old) \cap Keys(new)}]

\* diff: the positions it reports (each list in the order of a set
\* iteration, so as a set).
diff(old, new) ==
    [removed |-> {LastPos(old, k) : k \in Keys(old) \ Keys(new)},
     added |-> {LastPos(new, k) : k \in Keys(new) \ Keys(old)},
     modified |->
        {<<LastPos(old, k), LastPos(new, k)>> :
            k \in {x \in Keys(old) \cap Keys(new) :
                      old[LastPos(old, x) + 1].duration #
                          new[LastPos(new, x) + 1].duration}}]

\* int() of a value that is an int already: Content.duration is declared
\* Optional[int], and load_config makes rotation_interval an int.
int(n) == n

\* duration_for ignoring the item's own duration.
duration_for_default(content, default_seconds) == int(default_seconds)

\* duration_for: the item's duration when it is not None, else the default.
duration_for(content, default_seconds) ==
    IF content.duration # None
    THEN int(content.duration[1])
    ELSE int(default_seconds)

\* ---------------------------------------------------------- render targets
\* A render target is [doc, of, n]: the document kind, the text it carries
\* (the address, or what the written document embeds), and the serial of
\* the temporary file that holds it (0 for a target that is no temporary
\* file).
Target(d, src, n) == [doc |-> d, of |-> src, n |-> n]

Blank == Target("blank", <<>>, 0)

\* Backing files that exist on disk (Path.exists() in render_url).
ExistingFiles == {SrcA}

\* html.escape of one character (quote=True).
escape_char(c) ==
    CASE c = "&" -> <<"&", "a", "m", "p", ";">>
      [] c = "<" -> <<"&", "l", "t", ";">>
      [] c = ">" -> <<"&", "g", "t", ";">>
      [] c = "\"" -> <<"&", "q", "u", "o", "t", ";">>
      [] c = "'" -> <<"&", "#", "x", "2", "7", ";">>
      [] OTHER -> <<c>>

\* html.escape of a text.
RECURSIVE html_escape(_)
html_escape(text) ==
    IF text = <<>> THEN <<>>
    ELSE escape_char(Head(text)) \o html_escape(Tail(text))

\* ErrorContent(id=..., source=message).
ErrorContent(message) == Item("error", message, None)

\* f"Image not found: {self.source}" and f"Video not found: {self.source}".
not_found(it) ==
    <<IF it.kind = "image" THEN "Image not found: " ELSE "Video not found: ">>
        \o it.source

\* ErrorContent.render_url: the temporary document n with the escaped
\* message (or "Unknown error" for an empty one).
error_render_url(it, n) ==
    Target("error",
           html_escape(IF it.source = <<>> THEN <<"Unknown error">>
                       ELSE it.source),
           n)

\* The resolution raising for a missing backing file.
to_url_strict(it, n) ==
    CASE it.kind = "url" -> Target("url", it.source, 0)
      [] it.kind = "html" -> Target("file", it.source, 0)
      [] it.kind \in {"image", "video"} ->
            IF it.source \in ExistingFiles
            THEN Target(it.kind, html_escape(it.source), n)
            ELSE Target("raised", <<"FileNotFoundError">>, 0)
      [] it.kind = "error" -> error_render_url(it, n)

\* Content.to_url, for the n-th load of the configuration.  Player calls
\* to_url; content.py defines the resolution as render_url:
\* url is the source verbatim, html a file reference, image and video a
\* freshly written temporary document (NamedTemporaryFile, a new name on
\* every call) that embeds the escaped path or, when the backing file is
\* missing, the target of an ErrorContent with a "not found" message.
to_url(it, n) ==
    CASE it.kind = "url" -> Target("url", it.source, 0)
      [] it.kind = "html" -> Target("file", it.source, 0)
      [] it.kind \in {"image", "video"} ->
            IF it.source \in ExistingFiles
            THEN Target(it.kind, html_escape(it.source), n)
            ELSE error_render_url(ErrorContent(not_found(it)), n)
      [] it.kind = "error" -> error_render_url(it, n)

Urls(items, n) == [i \in 1..Len(items) |-> to_url(items[i], n)]

\* ------------------------------------------------------------ configuration
UpperLetters ==
    << "A", "B", "C", "D", "E", "F", "G", "H", "I", "J", "K", "L", "M",
       "N", "O", "P", "Q", "R", "S", "T", "U", "V", "W", "X", "Y", "Z" >>

LowerLetters ==
    << "a", "b", "c", "d", "e", "f", "g", "h", "i", "j", "k", "l", "m",
       "n", "o", "p", "q", "r", "s", "t", "u", "v", "w", "x", "y", "z" >>

\* str.lower of a text of single characters.
lower(text) ==
    [i \in 1..Len(text) |->
        IF \E j \in 1..26 : UpperLetters[j] = text[i]
        THEN LowerLetters[CHOOSE j \in 1..26 : UpperLetters[j] = text[i]]
        ELSE text[i]]

\* The content kind of a type name spelled in lower case, as the chain of
\* if statements of _to_content finds it.
kind_of(t) ==
    CASE t = <<"u", "r", "l">> -> "url"
      [] t = <<"h", "t", "m", "l">> -> "html"
      [] t = <<"i", "m", "a", "g", "e">> -> "image"
      [] t = <<"v", "i", "d", "e", "o">> -> "video"
      [] OTHER -> "url"

\* _to_content comparing the type name as it is spelled.
to_content_exact(obj) ==
    LET given == IF obj.type = None \/ obj.type = Some(<<>>)
                 THEN <<"u", "r", "l">> ELSE obj.type[1]
    IN  Item(kind_of(given), obj.source, obj.duration)

\* _to_content: obj is the mapping of one content entry, type and duration
\* optional (obj.get), an absent or empty type read as "url".
to_content(obj) ==
    LET given == IF obj.type = None \/ obj.type = Some(<<>>)
                 THEN <<"u", "r", "l">> ELSE obj.type[1]
    IN  Item(kind_of(lower(given)), obj.source, obj.duration)

DisplayConfig(sc, w, h, r) ==
    [screen |-> sc, width |-> w, height |-> h, rotation |-> r]

AppConfig(d, refresh, contents) ==
    [display |-> d, refresh_interval |-> refresh, contents |-> contents]

DisplayA == DisplayConfig(":0", 1920, 1080, None)

DisplayB == DisplayConfig(":0", 1280, 1080, None)

UA == Item("url", SrcA, Some(10))

UB == Item("url", SrcB, None)

IA == Item("image", SrcA, None)

\* Configurations the file may hold when the player is constructed.
InitConfigs ==
    { AppConfig(DisplayA, None, <<UA, UB>>),
      AppConfig(DisplayA, Some(300), <<UA, UB>>) }

\* Configurations later written to the file.
FileConfigs ==
    { AppConfig(DisplayA, None, <<UB, UA>>),
      AppConfig(DisplayA, None, <<UA>>),
      AppConfig(DisplayB, None, <<UA, IA>>),
      AppConfig(DisplayB, None, <<>>) }

\* -------------------------------------------------------------------- state
Procs == {"main", "rotate", "cfgwatch", "refresh"}

Loops == {"rotate", "cfgwatch", "refresh"}

VARIABLES
    cfg,          \* Player._cfg
    bankItems,    \* ContentBank._items
    bankIndex,    \* ContentBank._index
    file,         \* the configuration file: [mtime, content, ok]
    writes,       \* how often the file was rewritten
    last_mtime,   \* Player._last_mtime
    gen,          \* loads of the configuration so far (temporary-file serial)
    shutdown,     \* Player._shutdown
    plock,        \* Player._lock: its holder or "none"
    tasks,        \* keys of Player._tasks
    pc,           \* per coroutine: the await it is suspended at
    op,           \* per coroutine: the await inside the Display call it is in
    cancelReq,    \* tasks whose cancel() was called
    outcome,      \* per task: how it ended
    ridx,         \* _rotate_loop: idx
    fidx,         \* _refresh_loop: idx
    disp_changed, \* _reload_config: disp_changed
    urls,         \* run / _reload_config: the list passed to ensure_pages
    ep_i,         \* ensure_pages: i of the navigation loop
    d_settings,   \* Display.screen, width, height, rotation
    d_playwright, \* Display._playwright is not None
    d_browser,    \* Display._browser is not None
    d_context,    \* Display._context is not None
    d_pages,      \* Display._pages: per page the target it last loaded
    d_urls,       \* Display._urls
    d_lock,       \* Display._lock: its holder or "none"
    d_waiters,    \* Display._lock: coroutines queued in acquire()
    front,        \* position of the page in the foreground, -1 for none
    synced,       \* the latest Display call was an ensure_pages that returned
    txlog,        \* Display calls made by the latest reload transaction
    txprev,       \* Player._cfg.display when that transaction began
    txold,        \* ContentBank._items when that transaction began
    fellback,     \* a set_items in the present dwell dropped the shown entry
    tx_diff,      \* _reload_config: diff
    previous_urls,   \* polling client, poll_server: previous_urls
    polled_urls,     \* poll_server: polled_urls
    pending,         \* poll_server: urls the for loop has yet to put
    poll_pc,         \* poll_server: where the polling thread is
    polls,           \* calls of poll_urls so far
    url_queue,       \* polling client, Player._url_queue
    disp_pc,         \* manage_display: where the display thread is
    disp_urls,       \* display_content: urls
    browser_process, \* polling client, Display.browser_process
    launches,        \* calls of open_url so far
    ret,          \* the latest call of a ContentBank query: [fn, args, value]
    lastOp,       \* the ContentBank operation applied last
    prevKey,      \* key of the entry that was current before it
    prevIndex,    \* cursor before it
    visited,      \* cursors returned by next_index since the last set_items
    startIdx      \* cursor before the first of them

vars ==
    << cfg, bankItems, bankIndex, file, writes, last_mtime, gen, shutdown,
       plock, tasks, pc, op, cancelReq, outcome, ridx, fidx, disp_changed,
       urls, ep_i, d_settings, d_playwright, d_browser, d_context, d_pages,
       d_urls, d_lock, d_waiters, front, synced, txlog, txprev, txold,
       fellback, tx_diff, ret, lastOp, prevKey, prevIndex, visited,
       startIdx, previous_urls, polled_urls, pending, poll_pc, polls,
       url_queue, disp_pc, disp_urls, browser_process, launches >>

\* The current state as one record, so that the code run between two awaits
\* is a composition of functions on it.
Cur ==
    [ cfg |-> cfg, bankItems |-> bankItems, bankIndex |-> bankIndex,
      file |-> file, writes |-> writes, last_mtime |-> last_mtime,
      gen |-> gen, shutdown |-> shutdown, plock |-> plock, tasks |-> tasks,
      pc |-> pc, op |-> op, cancelReq |-> cancelReq, outcome |-> outcome,
      ridx |-> ridx, fidx |-> fidx, disp_changed |-> disp_changed,
      urls |-> urls, ep_i |-> ep_i, d_settings |-> d_settings,
      d_playwright |-> d_playwright, d_browser |-> d_browser,
      d_context |-> d_context, d_pages |-> d_pages, d_urls |-> d_urls,
      d_lock |-> d_lock, d_waiters |-> d_waiters, front |-> front,
      synced |-> synced, txold |-> txold, ret |-> ret,
      fellback |-> fellback, tx_diff |-> tx_diff,
      previous_urls |-> previous_urls, polled_urls |-> polled_urls,
      pending |-> pending, poll_pc |-> poll_pc, polls |-> polls,
      url_queue |-> url_queue, disp_pc |-> disp_pc,
      disp_urls |-> disp_urls, browser_process |-> browser_process,
      launches |-> launches,
      txlog |-> txlog, txprev |-> txprev, lastOp |-> lastOp,
      prevKey |-> prevKey, prevIndex |-> prevIndex, visited |-> visited,
      startIdx |-> startIdx ]

Becomes(s) ==
    /\ cfg' = s.cfg /\ bankItems' = s.bankItems /\ bankIndex' = s.bankIndex
    /\ file' = s.file /\ writes' = s.writes /\ last_mtime' = s.last_mtime
    /\ gen' = s.gen /\ shutdown' = s.shutdown /\ plock' = s.plock
    /\ tasks' = s.tasks /\ pc' = s.pc /\ op' = s.op
    /\ cancelReq' = s.cancelReq /\ outcome' = s.outcome
    /\ ridx' = s.ridx /\ fidx' = s.fidx /\ disp_changed' = s.disp_changed
    /\ urls' = s.urls /\ ep_i' = s.ep_i /\ d_settings' = s.d_settings
    /\ d_playwright' = s.d_playwright /\ d_browser' = s.d_browser
    /\ d_context' = s.d_context /\ d_pages' = s.d_pages
    /\ d_urls' = s.d_urls /\ d_lock' = s.d_lock
    /\ d_waiters' = s.d_waiters /\ front' = s.front /\ txlog' = s.txlog
    /\ synced' = s.synced /\ txold' = s.txold /\ ret' = s.ret
    /\ fellback' = s.fellback /\ tx_diff' = s.tx_diff
    /\ previous_urls' = s.previous_urls /\ polled_urls' = s.polled_urls
    /\ pending' = s.pending /\ poll_pc' = s.poll_pc /\ polls' = s.polls
    /\ url_queue' = s.url_queue /\ disp_pc' = s.disp_pc
    /\ disp_urls' = s.disp_urls /\ browser_process' = s.browser_process
    /\ launches' = s.launches
    /\ txprev' = s.txprev /\ prevIndex' = s.prevIndex
    /\ lastOp' = s.lastOp /\ prevKey' = s.prevKey /\ visited' = s.visited
    /\ startIdx' = s.startIdx

\* Coroutine t suspended at await p, inside the Display call at await o.
At(s, t, p, o) == [s EXCEPT !.pc[t] = p, !.op[t] = o]

\* Coroutine t ended.
Ended(s, t, how) ==
    [s EXCEPT !.pc[t] = "done", !.op[t] = "idle", !.outcome[t] = how]


\* ------------------------------------------------- Player: loop tops, exits
\* ContentBank.current: the index it returns.
current(s) == IF s.bankItems = <<>> THEN 0 ELSE s.bankIndex

\* _config_watch_loop: the while test, then the sleep that opens an iteration.
config_watch_top(s) ==
    IF s.shutdown
    THEN Ended(s, "cfgwatch", "returned")
    ELSE At(s, "cfgwatch", "sleep", "idle")

\* _refresh_loop: the while test, then the wait that opens an iteration.
refresh_top(s) ==
    IF s.shutdown
    THEN Ended(s, "refresh", "returned")
    ELSE At(s, "refresh", "wait", "idle")

\* _reload_config returns: the lock is released, the watch loop goes on.
reload_config_return(s) == config_watch_top([s EXCEPT !.plock = "none"])

\* _reload_config raising with Player._lock still held.
reload_config_raise_held(s) ==
    config_watch_top([s EXCEPT !.plock = "cfgwatch"])

\* _reload_config raises: the lock is released, the watch loop's except
\* clause logs the error and the loop goes on.
reload_config_raise(s) == config_watch_top([s EXCEPT !.plock = "none"])

\* run: the tasks created after the first ensure_pages.
create_tasks(s) ==
    LET started == {"rotate", "cfgwatch"} \cup
                   (IF s.cfg.refresh_interval # None THEN {"refresh"} ELSE {})
    IN  [s EXCEPT !.tasks = started,
                  !.pc = [t \in Procs |->
                             IF t \in started THEN "start" ELSE s.pc[t]]]

\* cleanup that goes to gather without cancel().
cleanup_nocancel(s) == At(s, "main", "gather", "idle")

\* cleanup up to its first await: cancel() on every task, then gather.
cleanup(s) == At([s EXCEPT !.cancelReq = s.tasks], "main", "gather", "idle")

\* run after ensure_pages returned: create the tasks, wait for shutdown
\* (Event.wait returns at once when the event is already set).
run_after_ensure(s) ==
    IF s.shutdown
    THEN cleanup(create_tasks(s))
    ELSE At(create_tasks(s), "main", "wait", "idle")

\* run creating its tasks before the exception leaves it.
run_raise_started(s) ==
    [At(create_tasks(s), "main", "failed", "idle")
        EXCEPT !.outcome["main"] = "raised"]

\* run: an exception of launch or ensure_pages leaves run.
run_raise(s) == [At(s, "main", "failed", "idle") EXCEPT !.outcome["main"] = "raised"]

\* ------------------------------------------------------------------ Display
LockFree(s) == s.d_lock = "none" /\ s.d_waiters = <<>>

Unlock(s) == [s EXCEPT !.d_lock = "none"]

Logged(s, t, name) ==
    IF t = "cfgwatch" THEN [s EXCEPT !.txlog = Append(@, name)] ELSE s

ensure_pages_return(s, t) ==
    LET s1 == [s EXCEPT !.synced = TRUE]
    IN  IF t = "main" THEN run_after_ensure(s1) ELSE reload_config_return(s1)

ensure_pages_raise(s, t) ==
    IF t = "main" THEN run_raise(s) ELSE reload_config_raise(s)

\* ensure_pages: the for loop from position i, up to the next goto or to
\* the assignment of _urls that ends the call.
RECURSIVE ensure_pages_nav(_, _, _)
ensure_pages_nav(s, t, i) ==
    IF i >= Len(s.urls)
    THEN ensure_pages_return(Unlock([s EXCEPT !.d_urls = s.urls, !.ep_i = 0]), t)
    ELSE IF i >= Len(s.d_urls) \/ s.d_urls[i + 1] # s.urls[i + 1]
    THEN [At(s, t, "ensure", "goto") EXCEPT !.ep_i = i]
    ELSE ensure_pages_nav(s, t, i + 1)

\* ensure_pages: the two while loops, up to their next await.
ensure_pages_sync(s, t) ==
    IF Len(s.d_pages) < Len(s.urls)
    THEN At(s, t, "ensure", "new_page")
    ELSE IF Len(s.d_pages) > Len(s.urls)
    THEN At([s EXCEPT !.d_pages = SubSeq(@, 1, Len(@) - 1),
                      !.front = IF @ >= Len(s.d_pages) - 1 THEN -1 ELSE @],
            t, "ensure", "page_close")
    ELSE ensure_pages_nav(s, t, 0)

ensure_pages_locked(s, t) ==
    IF ~s.d_context
    THEN ensure_pages_raise(Unlock(s), t)
    ELSE ensure_pages_sync(s, t)

\* show, the lock held.
show_return(s) == At(s, "rotate", "dwell", "idle")

\* The except clause advancing the cursor before its sleep.
show_raise_advance(s) ==
    At([s EXCEPT !.bankIndex = next_index(s.bankItems, s.bankIndex)],
       "rotate", "backoff", "idle")

\* show raised: the except clause of _rotate_loop logs and sleeps.
show_raise(s) == At(s, "rotate", "backoff", "idle")

show_locked(s) ==
    IF s.d_pages = <<>>
    THEN show_return(Unlock(s))
    ELSE At(s, "rotate", "show", "front")

\* reload, the lock held.
reload_raise(s) == Ended([s EXCEPT !.fidx = 0], "refresh", "raised")

reload_locked(s) ==
    IF 0 <= s.fidx /\ s.fidx < Len(s.d_pages)
    THEN At(s, "refresh", "reload", "page_reload")
    ELSE refresh_top(Unlock([s EXCEPT !.fidx = 0]))

\* launch up to its first await (async_playwright().start()).
launch(s, t) == At(Logged(s, t, "launch"), t, "launch", "pw_start")

\* close returned: cleanup is over, or _reload_config goes on to launch.
close_return(s, t) ==
    IF t = "main" THEN Ended(s, "main", "returned") ELSE launch(s, t)

\* close from the third try block on.
close_playwright(s, t) ==
    IF s.d_playwright
    THEN At(s, t, "close", "pw")
    ELSE close_return(Unlock(s), t)

\* close from the second try block on.
close_browser(s, t) ==
    IF s.d_browser
    THEN At(s, t, "close", "browser")
    ELSE close_playwright(s, t)

\* close leaving the page list and the recorded urls as they are.
close_cleared_keep(s, t) == close_browser([s EXCEPT !.d_context = FALSE], t)

\* close after the first try block: _context = None, the two clear().
close_cleared(s, t) ==
    close_browser([s EXCEPT !.d_context = FALSE, !.d_pages = <<>>,
                            !.d_urls = <<>>, !.front = -1], t)

close_locked(s, t) ==
    IF s.d_context THEN At(s, t, "close", "ctx") ELSE close_cleared(s, t)

\* The body of the Display method coroutine t called, the lock just taken.
locked(s, t) ==
    CASE s.pc[t] = "show" -> show_locked(s)
      [] s.pc[t] = "reload" -> reload_locked(s)
      [] s.pc[t] = "ensure" -> ensure_pages_locked(s, t)
      [] s.pc[t] = "close" -> close_locked(s, t)

\* async with self._lock: asyncio.Lock.acquire takes a free lock without
\* suspending and queues the caller otherwise (also behind earlier waiters).
with_lock(s, t) ==
    IF LockFree(s)
    THEN locked([s EXCEPT !.d_lock = t], t)
    ELSE [s EXCEPT !.d_waiters = Append(@, t), !.op[t] = "lock"]

show(s) == with_lock(At(s, "rotate", "show", "idle"), "rotate")

reload(s) == with_lock(At(s, "refresh", "reload", "idle"), "refresh")

ensure_pages(s, t) ==
    with_lock(At(Logged([s EXCEPT !.synced = FALSE], t, "ensure_pages"),
                 t, "ensure", "idle"), t)

close(s, t) ==
    with_lock(At(Logged([s EXCEPT !.synced = FALSE], t, "close"),
                 t, "close", "idle"), t)

\* run calling ensure_pages without the render targets of the bank.
launch_return_no_urls(s, t) == ensure_pages(s, t)

\* launch returned: run and _reload_config both go on to ensure_pages.
launch_return(s, t) ==
    IF t = "main"
    THEN ensure_pages([s EXCEPT !.urls = Urls(s.bankItems, s.gen)], t)
    ELSE ensure_pages(s, t)

launch_raise(s, t) ==
    IF t = "main" THEN run_raise(s) ELSE reload_config_raise(s)


\* ------------------------------------------------------------ Player loops
\* _rotate_loop: the while test, current(), and the call of show.
rotate_top(s) ==
    IF s.shutdown
    THEN Ended(s, "rotate", "returned")
    ELSE show([s EXCEPT !.ridx = current(s)])

\* _rotate_loop after the dwell wait: next_index(), then the next iteration.
rotate_after_dwell(s) ==
    rotate_top([s EXCEPT !.bankIndex = next_index(s.bankItems, s.bankIndex),
                         !.fellback = FALSE])

\* The refresh loop moving the cursor to the entry it reloads.
refresh_after_wait_advance(s) ==
    reload([s EXCEPT !.bankIndex = next_index(s.bankItems, s.bankIndex),
                     !.fidx = next_index(s.bankItems, s.bankIndex)])

\* _refresh_loop after its wait: current(), and the call of reload.
refresh_after_wait(s) == reload([s EXCEPT !.fidx = current(s)])

\* disp_changed compared with the Display object's own settings.
display_changed_object(new, s) == new.display # s.d_settings

\* _reload_config: disp_changed.
display_changed(new, s) == new.display # s.cfg.display

\* The restart going straight to launch.
restart_display_no_close(s) == launch(s, "cfgwatch")

\* _reload_config: the branch taken when disp_changed (close, then launch
\* once close returned, see close_return).
restart_display(s) == close(s, "cfgwatch")

\* set_items(new) is called while the rotate loop dwells on the entry at
\* the cursor, and finds no entry of new with that entry's key.
drops_shown(s, new) ==
    /\ s.pc["rotate"] = "dwell" /\ s.ridx = s.bankIndex
    /\ s.bankItems # <<>> /\ new # <<>>
    /\ FirstMatch(new, Key(s.bankItems[s.bankIndex + 1])) = -1

\* _reload_config leaving the bank alone when it restarts the display.
reload_config_swap_late(s) ==
    IF ~s.file.ok
    THEN reload_config_raise(s)
    ELSE LET new == s.file.content
             s1 == [s EXCEPT
                      !.plock = "cfgwatch",
                      !.gen = @ + 1,
                      !.disp_changed = display_changed(new, s),
                      !.cfg = new,
                      !.urls = Urls(new.contents, s.gen + 1),
                      !.txlog = <<>>,
                      !.txprev = Some(s.cfg.display),
                      !.txold = s.bankItems]
         IN  IF s1.disp_changed
             THEN restart_display(s1)
             ELSE ensure_pages(
                      [s1 EXCEPT
                         !.bankItems = new.contents,
                         !.bankIndex = set_items(s.bankItems, s.bankIndex,
                                                 new.contents)],
                      "cfgwatch")

\* _reload_config skipping the swap and the sync when diff reports nothing.
reload_config_with_skip(s, new, d) ==
    IF d = [removed |-> {}, added |-> {}, modified |-> {}]
    THEN reload_config_return(
             [s EXCEPT !.gen = @ + 1, !.cfg = new, !.tx_diff = d])
    ELSE LET s1 == [s EXCEPT
                      !.plock = "cfgwatch",
                      !.gen = @ + 1,
                      !.disp_changed = display_changed(new, s),
                      !.cfg = new,
                      !.tx_diff = d,
                      !.bankItems = new.contents,
                      !.bankIndex =
                          set_items(s.bankItems, s.bankIndex, new.contents),
                      !.urls = Urls(new.contents, s.gen + 1),
                      !.txlog = <<>>,
                      !.txprev = Some(s.cfg.display),
                      !.txold = s.bankItems,
                      !.fellback = drops_shown(s, new.contents)]
         IN  IF s1.disp_changed
             THEN restart_display(s1)
             ELSE ensure_pages(s1, "cfgwatch")

\* _reload_config from the loaded configuration new on, d being what
\* diff returned: d is kept for the log line, the rest does not read it.
reload_config_with(s, new, d) ==
    LET s1 == [s EXCEPT
                 !.plock = "cfgwatch",
                 !.gen = @ + 1,
                 !.disp_changed = display_changed(new, s),
                 !.cfg = new,
                 !.tx_diff = d,
                 !.bankItems = new.contents,
                 !.bankIndex =
                     set_items(s.bankItems, s.bankIndex, new.contents),
                 !.urls = Urls(new.contents, s.gen + 1),
                 !.txlog = <<>>,
                 !.txprev = Some(s.cfg.display),
                 !.txold = s.bankItems,
                 !.fellback = drops_shown(s, new.contents)]
    IN  IF s1.disp_changed
        THEN restart_display(s1)
        ELSE ensure_pages(s1, "cfgwatch")

\* _reload_config, Player._lock taken (nobody else ever holds it).
reload_config(s) ==
    IF ~s.file.ok
    THEN reload_config_raise(s)
    ELSE reload_config_with(s, s.file.content,
                            diff(s.bankItems, s.file.content.contents))

\* The poll starting the reload without recording the timestamp.
watch_after_sleep_unrecorded(s) ==
    IF s.file.mtime <= s.last_mtime
    THEN config_watch_top(s)
    ELSE reload_config(s)

\* The mtime test letting an equal timestamp through.
watch_after_sleep_equal(s) ==
    IF s.file.mtime < s.last_mtime
    THEN config_watch_top(s)
    ELSE reload_config([s EXCEPT !.last_mtime = s.file.mtime])

\* _config_watch_loop after its sleep: the mtime test, then the reload.
watch_after_sleep(s) ==
    IF s.file.mtime <= s.last_mtime
    THEN config_watch_top(s)
    ELSE reload_config([s EXCEPT !.last_mtime = s.file.mtime])

\* gather without waiting for the tasks.
gather_done_nowait(s) == TRUE

\* asyncio.gather(*tasks, return_exceptions=True) is done when every task
\* is, however it ended.
gather_done(s) == \A t \in s.tasks : s.pc[t] = "done"

\* cleanup leaving the task table as it is.
cleanup_after_gather_keep(s) == close(s, "main")

\* cleanup after gather: _tasks.clear(), then the call of close.
cleanup_after_gather(s) == close([s EXCEPT !.tasks = {}], "main")

\* CancelledError thrown into task t at its await: it passes the except
\* Exception clauses, runs the finally clause of the try block it is in
\* (close), leaves every async with (the locks are released) and ends t.
cancel_task(s, t) ==
    Ended([s EXCEPT
             !.d_lock = IF @ = t THEN "none" ELSE @,
             !.d_waiters = SelectSeq(@, LAMBDA w : w # t),
             !.plock = IF @ = t THEN "none" ELSE @,
             !.d_context = IF s.op[t] = "ctx" THEN FALSE ELSE @,
             !.d_browser = IF s.op[t] = "browser" THEN FALSE ELSE @,
             !.d_playwright = IF s.op[t] = "pw" THEN FALSE ELSE @],
          t, "cancelled")

\* The await each loop suspends at between two ticks.
SuspensionPoint ==
    [rotate |-> "dwell", refresh |-> "wait", cfgwatch |-> "sleep"]

\* Whether the shutdown event ends that await by itself: the rotate and the
\* refresh loop wait in wait_for(self._shutdown.wait(), timeout), the
\* config-watch loop in asyncio.sleep(1), which only its timer or a
\* cancel() ends.
released_by_shutdown(s, t) ==
    IF t \in {"rotate", "refresh"} THEN s.shutdown ELSE FALSE

\* ------------------------------------------------------------------ actions
\* Every action is a guard on the current state and Becomes(f(Cur)) for a
\* function f defined on every state the guard admits, so the action is
\* enabled exactly where its guard holds.
Runnable(t) == t \notin cancelReq

\* Coroutine t is suspended at await p, o and no cancel() is pending on it.
AtAwait(t, p, o) == Runnable(t) /\ pc[t] = p /\ op[t] = o

\* run() is called: launch up to its first await.
Run ==
    /\ pc["main"] = "init"
    /\ Becomes(launch(Cur, "main"))

\* The signal handler runs stop().
Stop ==
    /\ ~shutdown
    /\ pc["main"] \notin {"done", "failed"}
    /\ Becomes([Cur EXCEPT !.shutdown = TRUE])

\* The file is read by the config-watch loop alone, when its sleep ends,
\* stat and load_config in one step: a rewrite at any other moment is seen
\* exactly as one made during that sleep, and of several rewrites between
\* two polls only the last is seen.  So rewrites are taken during the sleep,
\* one per poll.
Unobserved == pc["cfgwatch"] = "sleep" /\ file.mtime <= last_mtime

\* The configuration file is rewritten with a configuration that loads.
FileWrite(c) ==
    /\ writes < MaxWrites
    /\ Unobserved
    /\ Becomes([Cur EXCEPT !.writes = @ + 1,
                           !.file = [mtime |-> file.mtime + 1,
                                     content |-> c, ok |-> TRUE]])

\* The configuration file is rewritten with text load_config fails on.
FileWriteBad ==
    /\ writes < MaxWrites
    /\ Unobserved
    /\ Becomes([Cur EXCEPT !.writes = @ + 1,
                           !.file = [mtime |-> file.mtime + 1,
                                     content |-> file.content, ok |-> FALSE]])

\* The file gets a timestamp that is not newer than the one it has: it is
\* touched within the granularity of st_mtime, or given an older time (a
\* copy that preserves timestamps, a clock set back).
FileStale(m) ==
    /\ writes < MaxWrites
    /\ Unobserved
    /\ Becomes([Cur EXCEPT !.writes = @ + 1, !.file.mtime = m])

\* launch: async_playwright().start() returns.
PwStartOk(t) ==
    /\ AtAwait(t, "launch", "pw_start")
    /\ Becomes(At([Cur EXCEPT !.d_playwright = TRUE], t, "launch", "br_launch"))

PwStartFail(t) ==
    /\ AtAwait(t, "launch", "pw_start")
    /\ Becomes(launch_raise(Cur, t))

\* launch: chromium.launch returns.
BrLaunchOk(t) ==
    /\ AtAwait(t, "launch", "br_launch")
    /\ Becomes(At([Cur EXCEPT !.d_browser = TRUE], t, "launch", "new_ctx"))

BrLaunchFail(t) ==
    /\ AtAwait(t, "launch", "br_launch")
    /\ Becomes(launch_raise(Cur, t))

\* launch: new_context returns, and with it launch.
NewCtxOk(t) ==
    /\ AtAwait(t, "launch", "new_ctx")
    /\ Becomes(launch_return([Cur EXCEPT !.d_context = TRUE], t))

NewCtxFail(t) ==
    /\ AtAwait(t, "launch", "new_ctx")
    /\ Becomes(launch_raise(Cur, t))

\* Coroutine t is the head of the lock's queue and the lock is free.
Woken(t) ==
    /\ Runnable(t) /\ op[t] = "lock"
    /\ d_lock = "none" /\ d_waiters # <<>> /\ Head(d_waiters) = t

\* The head of the lock's queue is woken and takes the lock.
LockAcquired(t) ==
    /\ Woken(t)
    /\ Becomes(locked([Cur EXCEPT !.d_lock = t, !.d_waiters = Tail(@)], t))

\* ensure_pages: new_page and goto("about:blank") return, the page is kept.
NewPageOk(t) ==
    /\ AtAwait(t, "ensure", "new_page")
    /\ Becomes(ensure_pages_sync([Cur EXCEPT !.d_pages = Append(@, Blank)], t))

NewPageFail(t) ==
    /\ AtAwait(t, "ensure", "new_page")
    /\ Becomes(ensure_pages_raise(Unlock(Cur), t))

\* ensure_pages: close of the popped page returns or raises (logged).
PageCloseDone(t) ==
    /\ AtAwait(t, "ensure", "page_close")
    /\ Becomes(ensure_pages_sync(Cur, t))

\* ensure_pages: goto(url) returns.
GotoOk(t) ==
    /\ AtAwait(t, "ensure", "goto")
    /\ Becomes(ensure_pages_nav(
           [Cur EXCEPT !.d_pages[ep_i + 1] = urls[ep_i + 1]], t, ep_i + 1))

GotoFail(t) ==
    /\ AtAwait(t, "ensure", "goto")
    /\ Becomes(ensure_pages_raise(Unlock([Cur EXCEPT !.ep_i = 0]), t))

\* The position without the lower clamp.
Clamp_no_floor(index, n) == IF index > n - 1 THEN n - 1 ELSE index

\* show: the position max(0, min(index, len(_pages) - 1)).
Clamp(index, n) ==
    IF index > n - 1 THEN n - 1 ELSE IF index < 0 THEN 0 ELSE index

\* show: bring_to_front returns.
ShowOk ==
    /\ AtAwait("rotate", "show", "front")
    /\ Becomes(show_return(
           Unlock([Cur EXCEPT !.front = Clamp(ridx, Len(d_pages))])))

ShowFail ==
    /\ AtAwait("rotate", "show", "front")
    /\ Becomes(show_raise(Unlock(Cur)))

\* reload: page.reload returns.
PageReloadOk ==
    /\ AtAwait("refresh", "reload", "page_reload")
    /\ Becomes(refresh_top(Unlock([Cur EXCEPT !.fidx = 0])))

PageReloadFail ==
    /\ AtAwait("refresh", "reload", "page_reload")
    /\ Becomes(reload_raise(Unlock(Cur)))

\* close: context.close() returns or raises.
CloseCtxDone(t) ==
    /\ AtAwait(t, "close", "ctx")
    /\ Becomes(close_cleared(Cur, t))

\* close: browser.close() returns or raises.
CloseBrowserDone(t) ==
    /\ AtAwait(t, "close", "browser")
    /\ Becomes(close_playwright([Cur EXCEPT !.d_browser = FALSE], t))

\* close: playwright.stop() returns or raises.
ClosePwDone(t) ==
    /\ AtAwait(t, "close", "pw")
    /\ Becomes(close_return(Unlock([Cur EXCEPT !.d_playwright = FALSE]), t))

\* The tasks run() created run for the first time: the event loop resumes
\* them in the order of their creation, in the iteration after the one that
\* created them, so nothing but a stop() scheduled earlier comes between.
first_steps(s) ==
    LET s1 == config_watch_top(rotate_top(s))
    IN  IF "refresh" \in s.tasks THEN refresh_top(s1) ELSE s1

TasksStart ==
    /\ AtAwait("rotate", "start", "idle")
    /\ Becomes(first_steps(Cur))

\* The dwell wait ends: the timeout elapsed or the shutdown event is set.
DwellEnd ==
    /\ AtAwait("rotate", "dwell", "idle")
    /\ Becomes(rotate_after_dwell(Cur))

\* The except clause's sleep followed by next_index().
BackoffEnd_advance ==
    /\ AtAwait("rotate", "backoff", "idle")
    /\ Becomes(rotate_after_dwell(Cur))

\* The sleep(1) of the rotate loop's except clause ends.
BackoffEnd ==
    /\ AtAwait("rotate", "backoff", "idle")
    /\ Becomes(rotate_top(Cur))

\* The refresh wait ends: the interval elapsed or the shutdown event is set.
RefreshWaitEnd ==
    /\ AtAwait("refresh", "wait", "idle")
    /\ Becomes(refresh_after_wait(Cur))

\* The sleep(1) of the config-watch loop ends.
WatchSleepEnd ==
    /\ AtAwait("cfgwatch", "sleep", "idle")
    /\ Becomes(watch_after_sleep(Cur))

\* run is resumed from shutdown.wait().  A task created but not yet started
\* is ahead of run() in the event loop's ready queue.
Wakeable ==
    /\ pc["main"] = "wait" /\ shutdown
    /\ \A t \in tasks : pc[t] # "start"

\* run: shutdown.wait() returns, cleanup starts.
MainWake ==
    /\ Wakeable
    /\ Becomes(cleanup(Cur))

\* cleanup: gather returns.
GatherDone ==
    /\ pc["main"] = "gather" /\ gather_done(Cur)
    /\ Becomes(cleanup_after_gather(Cur))

\* cancel() was called on task t, which has not ended.
Cancellable(t) == t \in cancelReq /\ pc[t] # "done"

\* A task whose cancel() was called gets CancelledError.
Cancelled(t) ==
    /\ Cancellable(t)
    /\ Becomes(cancel_task(Cur, t))

DisplayStep(t) ==
    \/ PwStartOk(t) \/ PwStartFail(t)
    \/ BrLaunchOk(t) \/ BrLaunchFail(t)
    \/ NewCtxOk(t) \/ NewCtxFail(t)
    \/ NewPageOk(t) \/ NewPageFail(t)
    \/ PageCloseDone(t)
    \/ GotoOk(t) \/ GotoFail(t)
    \/ CloseCtxDone(t) \/ CloseBrowserDone(t) \/ ClosePwDone(t)

MainStep == Run \/ MainWake \/ GatherDone \/ DisplayStep("main")

RotateStep ==
    \/ TasksStart \/ DwellEnd \/ BackoffEnd \/ ShowOk \/ ShowFail
    \/ LockAcquired("rotate") \/ Cancelled("rotate")

RefreshStep ==
    \/ RefreshWaitEnd \/ PageReloadOk \/ PageReloadFail
    \/ LockAcquired("refresh") \/ Cancelled("refresh")

WatchStep ==
    \/ WatchSleepEnd \/ DisplayStep("cfgwatch")
    \/ LockAcquired("cfgwatch") \/ Cancelled("cfgwatch")

Environment ==
    \/ Stop
    \/ FileWriteBad
    \/ \E c \in FileConfigs : FileWrite(c)
    \/ \E m \in {file.mtime - 1, file.mtime} : FileStale(m)

\* The polling client after Player.__init__, its two threads about to
\* run poll_server and manage_display.
InitPolling ==
    /\ previous_urls = {} /\ polled_urls = None /\ pending = {}
    /\ poll_pc = "poll" /\ polls = 0
    /\ url_queue = << >>
    /\ disp_pc = "drain" /\ disp_urls = << >>
    /\ browser_process = None /\ launches = 0

NoCall == [fn |-> "none", args |-> <<>>, value |-> <<>>]

InitBankGhost ==
    /\ lastOp = "init" /\ prevKey = None /\ prevIndex = 0
    /\ visited = <<>> /\ startIdx = 0 /\ ret = NoCall

InitPlayer(c) ==
    /\ cfg = c
    /\ file = [mtime |-> 1, content |-> c, ok |-> TRUE]
    /\ writes = 0 /\ last_mtime = 1 /\ gen = 0
    /\ shutdown = FALSE /\ plock = "none" /\ tasks = {}
    /\ pc = [t \in Procs |-> IF t = "main" THEN "init" ELSE "none"]
    /\ op = [t \in Procs |-> "idle"]
    /\ cancelReq = {}
    /\ outcome = [t \in Procs |-> "none"]
    /\ ridx = 0 /\ fidx = 0 /\ disp_changed = FALSE
    /\ urls = <<>> /\ ep_i = 0
    /\ d_settings = c.display
    /\ d_playwright = FALSE /\ d_browser = FALSE /\ d_context = FALSE
    /\ d_pages = <<>> /\ d_urls = <<>>
    /\ d_lock = "none" /\ d_waiters = <<>> /\ front = -1
    /\ synced = FALSE
    /\ txlog = <<>> /\ txprev = None /\ txold = <<>>
    /\ fellback = FALSE
    /\ tx_diff = [removed |-> {}, added |-> {}, modified |-> {}]
    /\ InitPolling

\* Player.__init__: the configuration is loaded, the bank and the Display
\* are built from it.
Init ==
    /\ \E c \in InitConfigs :
          /\ InitPlayer(c)
          /\ bankItems = c.contents
    /\ bankIndex = 0
    /\ InitBankGhost

Next == MainStep \/ RotateStep \/ RefreshStep \/ WatchStep \/ Environment

Spec == Init /\ [][Next]_vars


\* ------------------------------------------------- ContentBank on its own
\* ContentBank(items): any list of at most MaxLen items, cursor 0.
InitBank ==
    /\ InitPlayer(AppConfig(DisplayA, None, <<>>))
    /\ bankItems \in SeqsUpTo(ItemUniverse, MaxLen)
    /\ bankIndex = 0
    /\ InitBankGhost

CurrentKey ==
    IF bankItems = <<>> THEN None ELSE Some(Key(bankItems[bankIndex + 1]))

\* next_index() is called.  The returned cursors are logged from the last
\* set_items on, a new log starting once a full cycle is in it.
BankNextIndex ==
    LET r == next_index(bankItems, bankIndex)
        full == Len(visited) >= Len(bankItems)
    IN  Becomes([Cur EXCEPT !.bankIndex = r,
                            !.lastOp = "next_index",
                            !.prevKey = CurrentKey,
                            !.prevIndex = bankIndex,
                            !.startIdx = IF full THEN bankIndex ELSE @,
                            !.visited = IF bankItems = <<>> THEN <<>>
                                        ELSE IF full THEN <<r>>
                                        ELSE Append(@, r)])

\* set_items(new) is called.
BankSetItems(new) ==
    LET i == set_items(bankItems, bankIndex, new)
    IN  Becomes([Cur EXCEPT !.bankItems = new,
                            !.bankIndex = i,
                            !.lastOp = "set_items",
                            !.prevKey = CurrentKey,
                            !.prevIndex = bankIndex,
                            !.startIdx = i,
                            !.visited = <<>>])

NextBank ==
    \/ BankNextIndex
    \/ \E new \in SeqsUpTo(ItemUniverse, MaxLen) : BankSetItems(new)

SpecBank == InitBank /\ [][NextBank]_vars

\* ------------------------------------------- ContentBank queries on their own
\* Durations an item may carry, and defaults a caller may pass.
DurationValues == {None, Some(-1), Some(0), Some(1), Some(10)}

Defaults == {-1, 0, 1, 30}

\* Items for the queries: two keys, one of them with two durations.
QueryUniverse ==
    { Item("url", SrcA, Some(10)), Item("url", SrcA, None),
      Item("url", SrcB, None), Item("image", SrcA, Some(10)) }

InitCalls ==
    /\ InitPlayer(AppConfig(DisplayA, None, <<>>))
    /\ bankItems \in SeqsUpTo(QueryUniverse, MaxDiffLen)
    /\ bankIndex = 0
    /\ InitBankGhost

\* duration_for(content, default_seconds) is called.
CallDurationFor(d, default_seconds) ==
    LET content == Item("url", SrcA, d)
    IN  Becomes([Cur EXCEPT
                   !.lastOp = "duration_for",
                   !.ret = [fn |-> "duration_for",
                            args |-> <<content, default_seconds>>,
                            value |-> duration_for(content,
                                                   default_seconds)]])

\* diff(new_items) is called.
CallDiff(new_items) ==
    Becomes([Cur EXCEPT
               !.lastOp = "diff",
               !.ret = [fn |-> "diff", args |-> <<new_items>>,
                        value |-> diff(bankItems, new_items)]])

NextCalls ==
    \/ \E d \in DurationValues, n \in Defaults : CallDurationFor(d, n)
    \/ \E new \in SeqsUpTo(QueryUniverse, MaxDiffLen) : CallDiff(new)

SpecCalls == InitCalls /\ [][NextCalls]_vars

\* ------------------------------------- loading and resolving on their own
SrcAmp == <<"a", "&", "b">>

\* Sources of the entries loaded and resolved: one whose backing file
\* exists, two whose files are missing, one of them with a character
\* html.escape replaces.
ResolveSources == {SrcA, SrcB, SrcAmp}

\* Values of the type key: absent, empty, the four kinds in several
\* spellings, and names that are no kind.
TypeValues ==
    { None, Some(<<>>),
      Some(<<"u", "r", "l">>), Some(<<"U", "R", "L">>),
      Some(<<"h", "t", "m", "l">>), Some(<<"H", "t", "m", "l">>),
      Some(<<"i", "m", "a", "g", "e">>), Some(<<"I", "M", "A", "G", "E">>),
      Some(<<"v", "i", "d", "e", "o">>), Some(<<"V", "i", "d", "e", "O">>),
      Some(<<"p", "d", "f">>), Some(<<"e", "r", "r", "o", "r">>),
      Some(<<"u", "r", "l", "s">>) }

ContentEntries ==
    [type : TypeValues, source : ResolveSources,
     duration : {None, Some(10)}]

\* _to_content(obj) is called.
CallToContent(obj) ==
    Becomes([Cur EXCEPT
               !.lastOp = "to_content",
               !.ret = [fn |-> "to_content", args |-> <<obj>>,
                        value |-> to_content(obj)]])

\* The item just loaded is resolved, into the next temporary file if into
\* one.
CallToUrl ==
    /\ ret.fn = "to_content"
    /\ gen < MaxResolves
    /\ Becomes([Cur EXCEPT
                  !.gen = @ + 1,
                  !.lastOp = "to_url",
                  !.ret = [fn |-> "to_url", args |-> <<ret.value>>,
                           value |-> to_url(ret.value, gen + 1)]])

NextContent ==
    \/ \E obj \in ContentEntries : CallToContent(obj)
    \/ CallToUrl

SpecContent == Init /\ [][NextContent]_vars

\* ------------------------------------------------- Display.show on its own
\* Indexes a caller may pass to show.
ShowIndices == (0 - 2)..(MaxLen + 1)

\* launch() and then ensure_pages(urls) returned on the new Display: the
\* handles are set, there is one page per url, loaded with it.
SurfaceSynced(us) ==
    /\ pc["rotate"] = "none" /\ ~d_context
    /\ Becomes([Cur EXCEPT !.d_playwright = TRUE, !.d_browser = TRUE,
                           !.d_context = TRUE, !.d_pages = us,
                           !.d_urls = us, !.urls = us])

\* No show call is in progress.
ShowIdle == pc["rotate"] \in {"none", "dwell", "backoff"}

\* show(index) is called, up to its first await or its return.
CallShow(index) ==
    /\ ShowIdle
    /\ Becomes(show([Cur EXCEPT !.ridx = index]))

NextShow ==
    \/ \E items \in SeqsUpTo(ItemUniverse, MaxLen) :
          SurfaceSynced(Urls(items, 0))
    \/ \E index \in ShowIndices : CallShow(index)
    \/ ShowOk
    \/ ShowFail

SpecShow == Init /\ [][NextShow]_vars

\* ---------------------------------------------------------------------
\* The polling client (src/client/player.py): the polling thread runs
\* poll_server, the display thread runs manage_display, and the two share
\* the url queue.
PlaylistUrls == {"u1", "u2"}

\* poll_server: the for loop over polled_urls, before its next put; once
\* it is over previous_urls is assigned, and the thread goes on to the
\* settings, the ping and the sleep.
poll_for(s) ==
    IF s.pending = {}
    THEN [s EXCEPT !.previous_urls = s.polled_urls[1], !.poll_pc = "sleep"]
    ELSE [s EXCEPT !.poll_pc = "put"]

\* poll_server putting the polled urls whether or not they differ.
poll_compare_always(s, polled) ==
    poll_for([s EXCEPT !.polled_urls = Some(polled), !.pending = polled])

\* poll_server: poll_urls returned the set polled; the comparison with
\* previous_urls.
poll_compare(s, polled) ==
    IF polled # s.previous_urls
    THEN poll_for([s EXCEPT !.polled_urls = Some(polled), !.pending = polled])
    ELSE [s EXCEPT !.polled_urls = Some(polled), !.poll_pc = "sleep"]

\* poll_urls returns a set of urls.
PollUrlsOk(polled) ==
    /\ poll_pc = "poll" /\ polls < MaxPolls
    /\ Becomes(poll_compare([Cur EXCEPT !.polls = @ + 1], polled))

\* poll_urls fails: it returns None (a status other than 200), which
\* differs from previous_urls and raises when iterated over, or it raises
\* itself (the request or the decoding of its body failed); the except
\* clause of the first try block prints the error.
PollUrlsFails(how) ==
    /\ poll_pc = "poll" /\ polls < MaxPolls
    /\ Becomes([Cur EXCEPT
                  !.polls = @ + 1,
                  !.polled_urls = IF how = "status" THEN None ELSE @,
                  !.poll_pc = "sleep"])

\* poll_server: url_queue.put(url) for the next url of the set, in the
\* order the set iterates.
PutUrl(u) ==
    /\ poll_pc = "put" /\ u \in pending
    /\ Becomes(poll_for([Cur EXCEPT !.url_queue = Append(@, u),
                                    !.pending = @ \ {u}]))

\* poll_server: the settings are polled, the server pinged, and the
\* sleep of poll_interval ends.
PollSleepEnd ==
    /\ poll_pc = "sleep"
    /\ Becomes([Cur EXCEPT !.poll_pc = "poll"])

\* display_content: the queue is not empty, one url is taken.
QueueGet ==
    /\ disp_pc = "drain" /\ url_queue # << >>
    /\ Becomes([Cur EXCEPT !.disp_urls = Append(@, Head(url_queue)),
                           !.url_queue = Tail(@)])

\* display_content: the queue is empty; with urls taken the browser is
\* closed if there is one and opened on them, with none nothing is done.
QueueEmpty ==
    /\ disp_pc = "drain" /\ url_queue = << >>
    /\ Becomes(IF disp_urls # << >>
               THEN [Cur EXCEPT !.browser_process = Some(disp_urls),
                                !.launches = @ + 1,
                                !.disp_urls = << >>,
                                !.disp_pc = "sleep"]
               ELSE [Cur EXCEPT !.disp_pc = "sleep"])

\* manage_display: the sleep(1) ends, display_content is called again.
DisplaySleepEnd ==
    /\ disp_pc = "sleep"
    /\ Becomes([Cur EXCEPT !.disp_pc = "drain"])

PollingThread ==
    \/ \E how \in {"status", "raise"} : PollUrlsFails(how)
    \/ \E polled \in SUBSET PlaylistUrls : PollUrlsOk(polled)
    \/ \E u \in PlaylistUrls : PutUrl(u)
    \/ PollSleepEnd

\* The polling thread, and the display thread running manage_display.
NextPoll == PollingThread \/ QueueGet \/ QueueEmpty \/ DisplaySleepEnd

\* The polling client after Player.__init__; the kiosk player is not in it.
InitPoll ==
    /\ InitPlayer(AppConfig(DisplayA, None, <<>>))
    /\ bankItems = <<>> /\ bankIndex = 0 /\ InitBankGhost

SpecPoll == InitPoll /\ [][NextPoll]_vars

\* ------------------------------------------------------- fair scheduling
\* The asyncio event loop runs every ready callback in turn, so a coroutine
\* whose await has completed is resumed; Display operations and timers end.
LiveSpec ==
    /\ Spec
    /\ WF_vars(MainStep) /\ WF_vars(RotateStep)
    /\ WF_vars(RefreshStep) /\ WF_vars(WatchStep)

\* ------------------------------------------------------------------ claims
HasKey(items, k) == \E i \in 1..Len(items) : Key(items[i]) = k

\* C3: after construction and any next_index and set_items calls the cursor
\* is 0 for an empty bank and a position of the item list otherwise.
C3_CursorValid ==
    IF bankItems = <<>>
    THEN bankIndex = 0
    ELSE 0 <= bankIndex /\ bankIndex < Len(bankItems)

\* A set_items whose new list is shorter than the old cursor and lacks the
\* old current key fell back to 0.
C3_Witness ==
    /\ lastOp = "set_items" /\ prevKey # None
    /\ bankItems # <<>> /\ ~HasKey(bankItems, prevKey[1])
    /\ prevIndex >= Len(bankItems) /\ bankIndex = 0

\* C4: after set_items(new) the cursor is at an entry of new with the key
\* of the previously current entry when new has that key, and is 0 when new
\* lacks it, when new is empty, and when the bank was empty before.
C4_SetItemsByKey ==
    lastOp = "set_items" =>
        IF prevKey # None /\ HasKey(bankItems, prevKey[1])
        THEN Some(Key(bankItems[bankIndex + 1])) = prevKey
        ELSE bankIndex = 0

\* The current entry's key was found at another position than before.
C4_Witness ==
    /\ lastOp = "set_items" /\ prevKey # None /\ prevKey = CurrentKey
    /\ bankIndex # prevIndex /\ bankIndex > 0

\* C5: in a non-empty bank of length N the k-th next_index call after a
\* cursor c returns (c + k) mod N and leaves the cursor there, so N calls
\* visit every index once and end at c.
C5_CycleClosure ==
    LET N == Len(bankItems)
    IN  (bankItems # <<>> /\ visited # <<>>) =>
            /\ \A k \in 1..Len(visited) : visited[k] = (startIdx + k) % N
            /\ bankIndex = visited[Len(visited)]
            /\ Len(visited) = N =>
                  /\ bankIndex = startIdx
                  /\ {visited[k] : k \in 1..N} = 0..(N - 1)

\* A full cycle of a bank of more than two entries, begun off position 0.
C5_Witness ==
    /\ Len(bankItems) > 2 /\ Len(visited) = Len(bankItems)
    /\ startIdx > 0 /\ bankIndex = startIdx

InReload == plock = "cfgwatch"

LoopMoved(t) == pc'[t] # pc[t] \/ op'[t] # op[t]

\* C1: whenever the rotate loop begins a dwell wait, the index it passed to
\* Display.show is the ContentBank cursor of that moment.
C1_DwellShowsCursor ==
    [][(pc["rotate"] # "dwell" /\ pc'["rotate"] = "dwell") =>
          ridx' = bankIndex']_vars

\* C2: between the moment _reload_config starts applying a configuration
\* and the moment it returns or fails, the rotate loop and the refresh loop
\* execute no step (a task ended by cleanup's cancel() executes none).
C2_LoopsExcludedFromReload ==
    [][(InReload /\ InReload') =>
          \A t \in {"rotate", "refresh"} :
              LoopMoved(t) => t \in cancelReq]_vars

\* C6: no exception raised inside an iteration ends the rotate, refresh or
\* config-watch loop task.
C6_LoopsSurviveErrors == \A t \in Loops : outcome[t] # "raised"

Restart == <<"close", "launch", "ensure_pages">>

\* C7: a reload transaction whose loaded display settings differ from the
\* applied ones calls close once, then launch once, then ensure_pages, in
\* that order and nothing else.
C7_RestartOrder ==
    (txprev # None /\ txprev # Some(cfg.display)) =>
        \E n \in 1..3 : txlog = SubSeq(Restart, 1, n)

\* Such a transaction has returned, its three calls made.
C7_Witness ==
    /\ txprev # None /\ txprev # Some(cfg.display)
    /\ txlog = Restart /\ ~InReload
    /\ d_context /\ d_urls = urls /\ d_urls # <<>>

\* C8: a reload transaction whose loaded display settings equal the applied
\* ones calls ensure_pages and neither close nor launch, also when an
\* earlier reload changed the display settings.
C8_NoRestart == txprev = Some(cfg.display) => txlog = <<"ensure_pages">>

\* A second reload keeps the display settings the first one changed.
C8_Witness ==
    /\ txprev = Some(cfg.display) /\ cfg.display # d_settings
    /\ txlog = <<"ensure_pages">> /\ ~InReload /\ d_urls = urls

\* C9: while cleanup is in Display.close every loop task has ended.
C9_CloseAfterLoops ==
    pc["main"] = "close" => \A t \in Loops : pc[t] \in {"none", "done"}

\* cleanup reached Display.close although a loop task ended cancelled.
C9_Witness ==
    /\ pc["main"] = "close"
    /\ \E t \in Loops : outcome[t] = "cancelled"

Closed ==
    /\ ~d_context /\ ~d_browser /\ ~d_playwright
    /\ d_pages = <<>> /\ d_urls = <<>>

Stopped ==
    /\ pc["main"] = "done" /\ tasks = {} /\ Closed
    /\ \A t \in Loops : pc[t] \in {"none", "done"}

Frozen ==
    UNCHANGED << pc, op, tasks, bankItems, bankIndex, cfg, d_context,
                 d_browser, d_playwright, d_pages, d_urls, d_lock, front >>

\* C10 as stated: once the shutdown signal is set, run() reaches Stopped
\* (loop tasks ended, task table empty, Surface closed) and nothing of the
\* player moves afterwards.
C10_ShutdownStops ==
    /\ shutdown ~> Stopped
    /\ [][Stopped => Frozen]_vars

\* The longest playlist of the configurations above.
MaxPlaylist ==
    LET L == {Len(c.contents) : c \in InitConfigs \cup FileConfigs}
    IN  CHOOSE n \in L : \A m \in L : m <= n

\* Awaits an ensure_pages call of coroutine t has at most before it ends.
EnsureRank(t) ==
    CASE op[t] = "new_page" ->
            2 * (Len(urls) - Len(d_pages)) + Len(urls) + 1
      [] op[t] = "page_close" ->
            2 * (Len(d_pages) - Len(urls)) + Len(urls) + 2
      [] op[t] = "goto" -> Len(urls) - ep_i
      [] OTHER -> 2 * (Len(d_pages) + Len(urls)) + Len(urls) + 2

EnsureMax == 5 * MaxPlaylist + 2

\* Awaits a close call has at most before it ends.
CloseRank(t) ==
    CASE op[t] = "pw" -> 1
      [] op[t] = "browser" -> 2
      [] op[t] = "ctx" -> 3
      [] OTHER -> 4

\* Awaits a launch call and the ensure_pages after it have at most.
LaunchRank(t) ==
    CASE op[t] = "new_ctx" -> EnsureMax + 1
      [] op[t] = "br_launch" -> EnsureMax + 2
      [] OTHER -> EnsureMax + 3

\* Steps each coroutine has at most before it ends, once shutdown is set.
TaskRank(t) ==
    CASE pc[t] \in {"none", "done", "failed"} -> 0
      [] t = "rotate" ->
            (CASE pc[t] = "show" /\ op[t] = "lock" -> 3
               [] pc[t] = "show" -> 2
               [] OTHER -> 1)
      [] t = "refresh" ->
            (CASE pc[t] = "wait" -> 3
               [] pc[t] = "reload" /\ op[t] = "lock" -> 2
               [] OTHER -> 1)
      [] t = "cfgwatch" ->
            (CASE pc[t] = "start" -> 1
               [] pc[t] = "ensure" -> EnsureRank(t)
               [] pc[t] = "launch" -> LaunchRank(t)
               [] pc[t] = "close" -> EnsureMax + 3 + CloseRank(t)
               [] OTHER -> EnsureMax + 8)
      [] t = "main" ->
            (CASE pc[t] = "close" -> CloseRank(t)
               [] pc[t] = "gather" -> 5
               [] pc[t] = "wait" -> 6
               [] pc[t] = "ensure" -> 9 + EnsureRank(t)
               [] pc[t] = "launch" -> 9 + LaunchRank(t)
               [] OTHER -> 9 + EnsureMax + 4)

Rank ==
    TaskRank("main") + TaskRank("rotate") + TaskRank("refresh")
        + TaskRank("cfgwatch")

SystemNext == MainStep \/ RotateStep \/ RefreshStep \/ WatchStep

\* The awaits of the Display calls, the waits and the sleeps: each ends by
\* itself, whatever the other coroutines do.
SelfEnding ==
    { <<"launch", "pw_start">>, <<"launch", "br_launch">>,
      <<"launch", "new_ctx">>, <<"ensure", "new_page">>,
      <<"ensure", "page_close">>, <<"ensure", "goto">>,
      <<"close", "ctx">>, <<"close", "browser">>, <<"close", "pw">>,
      <<"show", "front">>, <<"reload", "page_reload">>,
      <<"start", "idle">>, <<"dwell", "idle">>, <<"backoff", "idle">>,
      <<"wait", "idle">>, <<"sleep", "idle">> }

\* ENABLED SystemNext, as the disjunction of the guards of its actions.
SystemEnabled ==
    \/ pc["main"] = "init"
    \/ Wakeable
    \/ pc["main"] = "gather" /\ gather_done(Cur)
    \/ \E t \in Procs : Woken(t) \/ Cancellable(t)
    \/ \E t \in Procs :
          /\ <<pc[t], op[t]>> \in SelfEnding
          /\ Runnable(t)
          /\ t = "main" => pc[t] # "wait"
          /\ t \in {"refresh", "cfgwatch"} => pc[t] # "start"

\* The guards are the enabledness (slow to check: TLC evaluates ENABLED
\* by running the actions).
GuardsAreEnabledness == SystemEnabled <=> ENABLED SystemNext

\* A step of the player: anything but a rewrite of the file changes.
Moves ==
    ~UNCHANGED << cfg, bankItems, bankIndex, last_mtime, gen, shutdown,
                  plock, tasks, pc, op, cancelReq, outcome, ridx, fidx,
                  disp_changed, urls, ep_i, d_settings, d_playwright,
                  d_browser, d_context, d_pages, d_urls, d_lock, d_waiters,
                  front, synced, txlog, txprev, txold, fellback, tx_diff,
                  ret,
                  lastOp, prevKey,
                  prevIndex, visited, startIdx >>

\* C10 amended: the same, unless launch or the first ensure_pages raised
\* and run() left with that exception.  Stated as the facts that give the
\* liveness under LiveSpec: once shutdown is set every step of the player
\* lowers Rank, a natural number, and any other step is a rewrite of the
\* file; while run() has neither ended nor failed some step of the player
\* is enabled, which the fair event loop then takes; and run() ended is
\* Stopped, after which nothing of the player moves.
C10_ShutdownStopsUnlessStartupFailed ==
    /\ [][shutdown => IF Moves THEN Rank' < Rank /\ Rank' >= 0
                                ELSE writes' = writes + 1]_vars
    /\ []((shutdown /\ pc["main"] \notin {"done", "failed"}) =>
              SystemEnabled)
    /\ [](pc["main"] = "done" => Stopped)
    /\ [][Stopped => Frozen]_vars

\* The amended liveness itself (slow to check: some twenty minutes at the
\* bounds above).
C10_LeadsToStoppedOrFailed == shutdown ~> (Stopped \/ pc["main"] = "failed")

\* Stopped after a shutdown that found loops running.
C10_Witness ==
    /\ shutdown /\ Stopped
    /\ \A t \in {"rotate", "cfgwatch"} : outcome[t] # "none"

OnScreen ==
    IF 0 <= front /\ front < Len(d_pages) THEN d_pages[front + 1] ELSE Blank

\* C12: while the rotate loop stays in one dwell, a reload transaction does
\* not change what the foreground viewport shows.
C12_DwellKeepsScreen ==
    [][(pc["rotate"] = "dwell" /\ pc'["rotate"] = "dwell") =>
          OnScreen' = OnScreen]_vars

\* C13: after an ensure_pages(urls) call that returned normally the Surface
\* has one viewport per entry of urls and viewport i last loaded urls[i].
C13_EnsurePagesAligns ==
    synced =>
        /\ Len(d_pages) = Len(urls)
        /\ \A i \in 1..Len(urls) : d_pages[i] = urls[i]

\* C14: in a reload transaction ensure_pages navigates viewport i only if
\* the bank entry at position i changed: a position whose entry has the
\* same (kind, source) in the old and in the new playlist is not navigated.
C14_NavigatesOnlyChanged ==
    (InReload /\ pc["cfgwatch"] = "ensure" /\ op["cfgwatch"] = "goto") =>
        \/ ep_i + 1 > Len(txold)
        \/ Key(txold[ep_i + 1]) # Key(bankItems[ep_i + 1])

\* C15: whenever the config-watch loop is between two reload transactions,
\* so also after every error its except clause caught, the Surface has a
\* launched context and a viewport for every entry of a non-empty playlist.
C15_SurfaceSurvivesErrors ==
    (pc["cfgwatch"] = "sleep" /\ bankItems # <<>>) =>
        d_context /\ Len(d_pages) = Len(bankItems)

\* C16: with an empty content list, the Surface synced to it, the rotate
\* loop in its dwell has the 'No content configured' placeholder in the
\* foreground viewport.  (A tick of the empty bank leaves the state as it
\* is, so each such state is also the state of a tick begun with it.)
C16_EmptyShowsPlaceholder ==
    (pc["rotate"] = "dwell" /\ bankItems = <<>> /\ synced /\ ~InReload) =>
        OnScreen.doc = "error"

\* C17: duration_for returns an integer of at least 1 for every item
\* duration, 0 and negative ones included, and every default.
C17_DurationAtLeastOne ==
    ret.fn = "duration_for" => ret.value \in Nat /\ ret.value >= 1

\* C18: duration_for returns the item's own duration when it is set and
\* the supplied default when it is absent.
C18_DurationOrDefault ==
    ret.fn = "duration_for" =>
        LET content == ret.args[1]
        IN  IF content.duration # None
            THEN ret.value = content.duration[1]
            ELSE ret.value = ret.args[2]

\* An item without a duration got the default 30.
C18_Witness ==
    /\ ret.fn = "duration_for" /\ ret.args[2] = 30
    /\ ret.args[1].duration = None /\ ret.value = 30

\* Positions of items that hold key k, counted from 0.
PosOf(items, k) == {i - 1 : i \in {j \in 1..Len(items) : Key(items[j]) = k}}

\* C19: diff(new) puts every key of the old and the new list into exactly
\* one class: only in new, reported once in added by a position in new;
\* only in old, reported once in removed by a position in old; in both,
\* reported in modified as (oldPos, newPos) exactly when the durations at
\* those positions differ, and not reported at all otherwise.
C19_DiffPartitions ==
    ret.fn = "diff" =>
        LET old == bankItems
            new == ret.args[1]
            r == ret.value
            Mod(k) == {m \in r.modified :
                          m[1] \in PosOf(old, k) /\ m[2] \in PosOf(new, k)}
            Add(k) == r.added \cap PosOf(new, k)
            Rem(k) == r.removed \cap PosOf(old, k)
            Card(S) == Cardinality(S)
        IN  /\ \A k \in Keys(old) \cup Keys(new) :
                  CASE k \notin Keys(old) ->
                          Card(Add(k)) = 1 /\ Rem(k) = {} /\ Mod(k) = {}
                    [] k \notin Keys(new) ->
                          Card(Rem(k)) = 1 /\ Add(k) = {} /\ Mod(k) = {}
                    [] OTHER ->
                          /\ Add(k) = {} /\ Rem(k) = {}
                          /\ Card(Mod(k)) <= 1
                          /\ \A m \in Mod(k) :
                                old[m[1] + 1].duration # new[m[2] + 1].duration
                          /\ Mod(k) = {} =>
                                \E i \in PosOf(old, k), j \in PosOf(new, k) :
                                    old[i + 1].duration = new[j + 1].duration
            /\ r.added \subseteq 0..(Len(new) - 1)
            /\ r.removed \subseteq 0..(Len(old) - 1)
            /\ Card(r.added) = Card(Keys(new) \ Keys(old))
            /\ Card(r.removed) = Card(Keys(old) \ Keys(new))
            /\ Card(r.modified) = Card({k \in Keys(old) \cap Keys(new) :
                                          Mod(k) # {}})

\* One call with a key added, a key removed and a key modified.
C19_Witness ==
    /\ ret.fn = "diff"
    /\ ret.value.added # {} /\ ret.value.removed # {}
    /\ ret.value.modified # {}

\* C20: the config-watch loop runs the reload transaction only when the
\* polled timestamp is greater than the recorded one, which it then
\* records; the recorded timestamp never decreases.
C20_ReloadOnlyOnNewer ==
    [][/\ last_mtime' >= last_mtime
       /\ (last_mtime' # last_mtime \/ gen' # gen \/ (InReload' /\ ~InReload))
             => (file.mtime > last_mtime /\ last_mtime' = file.mtime)]_vars

\* The file has an older timestamp than the recorded one while the
\* config-watch loop polls (a poll that finds it leaves the state as it is).
C20_Witness ==
    /\ file.mtime < last_mtime /\ pc["cfgwatch"] = "sleep"
    /\ ~shutdown /\ "cfgwatch" \notin cancelReq /\ gen > 0

\* A step in which an await of launch or of ensure_pages raises in run().
StartupFails ==
    \/ PwStartFail("main") \/ BrLaunchFail("main") \/ NewCtxFail("main")
    \/ NewPageFail("main") \/ GotoFail("main")

\* The tasks run() starts for the configuration it was constructed with.
ExpectedTasks ==
    {"rotate", "cfgwatch"} \cup
        (IF cfg.refresh_interval # None THEN {"refresh"} ELSE {})

\* C21: run() calls ensure_pages on the launched Surface with one render
\* target per bank entry, in bank order, and starts the rotate and the
\* config-watch loop (and the refresh loop when a refresh interval is
\* configured) in the step in which that call returns, never before.
C21_StartupOrder ==
    /\ [](pc["main"] = "ensure" =>
            /\ d_playwright /\ d_browser /\ d_context
            /\ Len(urls) = Len(bankItems)
            /\ \A i \in 1..Len(urls) : urls[i] = to_url(bankItems[i], gen)
            /\ tasks = {})
    /\ [](pc["main"] \in {"init", "launch"} => tasks = {} /\ ~synced)
    /\ [][(tasks = {} /\ tasks' # {}) =>
              /\ pc["main"] = "ensure" /\ synced'
              /\ d_urls' = urls /\ Len(d_pages') = Len(bankItems)
              /\ tasks' = ExpectedTasks
              /\ \A t \in tasks' : pc'[t] = "start"]_vars

\* The three loops were just created, the Surface synced to two targets.
C21_Witness ==
    /\ tasks = {"rotate", "cfgwatch", "refresh"} /\ pc["rotate"] = "start"
    /\ synced /\ Len(d_urls) = 2 /\ pc["main"] = "wait"

\* C22: when launch or the first ensure_pages raises in run(), the
\* exception leaves run() in that step and no loop task exists then or
\* is ever started afterwards.
C22_StartupFailureAborts ==
    /\ [][StartupFails =>
              /\ pc'["main"] = "failed" /\ outcome'["main"] = "raised"
              /\ tasks' = {}]_vars
    /\ [](pc["main"] = "failed" =>
              tasks = {} /\ \A t \in Loops : pc[t] = "none")
    /\ [][pc["main"] = "failed" => pc'["main"] = "failed"]_vars

\* The first ensure_pages raised on a launched Surface.
C22_Witness ==
    /\ pc["main"] = "failed" /\ outcome["main"] = "raised"
    /\ d_context /\ d_pages # <<>> /\ tasks = {}

\* A step that is a call of show.
ShowCalled == \E index \in ShowIndices : CallShow(index)

\* C23: show(index) on a Surface with at least one viewport goes on to
\* bring_to_front and brings viewport max(0, min(index, count - 1)) to the
\* foreground, whatever integer index is; on a Surface with no viewport it
\* returns at once, the lock free again, nothing brought to the foreground
\* and no error raised.
C23_ShowClamps ==
    /\ [][ShowOk =>
            /\ Len(d_pages) >= 1 /\ front' \in 0..(Len(d_pages) - 1)
            /\ (0 <= ridx /\ ridx < Len(d_pages)) => front' = ridx
            /\ ridx < 0 => front' = 0
            /\ ridx >= Len(d_pages) => front' = Len(d_pages) - 1]_vars
    /\ [][(ShowCalled /\ d_pages # <<>>) =>
            pc'["rotate"] = "show" /\ op'["rotate"] = "front"]_vars
    /\ [][(ShowCalled /\ d_pages = <<>>) =>
            /\ pc'["rotate"] = "dwell" /\ d_lock' = "none"
            /\ UNCHANGED << front, d_pages, outcome >>]_vars

\* show returned from a negative index with viewport 0 in the foreground
\* of three.
C23_Witness ==
    /\ pc["rotate"] = "dwell" /\ ridx < 0 /\ front = 0
    /\ Len(d_pages) = 3 /\ tasks = {}

\* C24: a close call that is not cancelled returns normally whether its
\* context.close(), browser.close() and playwright.stop() returned or
\* raised, and when it returns the Surface has no context, no browser, no
\* engine handle, no viewport and no recorded url, and its lock is free.
C24_CloseBestEffort ==
    [][\A t \in {"main", "cfgwatch"} :
          (pc[t] = "close" /\ pc'[t] # "close" /\ outcome'[t] # "cancelled")
              => /\ Closed' /\ d_lock' = "none"
                 /\ outcome'[t] # "raised"
                 /\ pc'[t] = IF t = "main" THEN "done" ELSE "launch"]_vars

\* The close of a display restart returned after awaiting all three
\* sub-steps, and the transaction went on to launch.
C24_Witness ==
    /\ pc["cfgwatch"] = "launch" /\ op["cfgwatch"] = "pw_start"
    /\ txlog = <<"close", "launch">> /\ Closed /\ d_lock = "none"

\* Text part occurs in text whole.
Contains(whole, part) ==
    \E i \in 1..(Len(whole) - Len(part) + 1) :
        SubSeq(whole, i, i + Len(part) - 1) = part

\* Error items with a "not found" message about one of the sources.
NotFoundErrors ==
    { ErrorContent(<<head>> \o src) :
          head \in {"Image not found: ", "Video not found: "},
          src \in ResolveSources }

KindNamed ==
    { <<None, "url">>, <<Some(<<>>), "url">>,
      <<Some(<<"u", "r", "l">>), "url">>,
      <<Some(<<"U", "R", "L">>), "url">>,
      <<Some(<<"h", "t", "m", "l">>), "html">>,
      <<Some(<<"H", "t", "m", "l">>), "html">>,
      <<Some(<<"i", "m", "a", "g", "e">>), "image">>,
      <<Some(<<"I", "M", "A", "G", "E">>), "image">>,
      <<Some(<<"v", "i", "d", "e", "o">>), "video">>,
      <<Some(<<"V", "i", "d", "e", "O">>), "video">>,
      <<Some(<<"p", "d", "f">>), "url">>,
      <<Some(<<"e", "r", "r", "o", "r">>), "url">>,
      <<Some(<<"u", "r", "l", "s">>), "url">> }

\* C26: _to_content gives the kind its type names in any letter case, url
\* for an absent, empty or unknown type, and the source and duration of
\* the entry unchanged.
C26_TypeToKind ==
    ret.fn = "to_content" =>
        LET obj == ret.args[1]
        IN  /\ <<obj.type, ret.value.kind>> \in KindNamed
            /\ ret.value.source = obj.source
            /\ ret.value.duration = obj.duration

\* An entry typed "IMAGE" with a duration became an image item.
C26_Witness ==
    /\ ret.fn = "to_content"
    /\ ret.args[1].type = Some(<<"I", "M", "A", "G", "E">>)
    /\ ret.value = Item("image", SrcAmp, Some(10))

\* A step in which a reload transaction that got as far as the Surface
\* ends with an exception (and not by cancel()).
TxFails ==
    /\ InReload /\ ~InReload' /\ ~synced'
    /\ "cfgwatch" \notin cancelReq

\* C27: from its first Surface operation on, a reload transaction has
\* the bank hold the sequence it loaded, the cursor valid; when the
\* transaction then fails in close, launch or ensure_pages the bank still
\* holds that sequence, no loop task ends in that step, and the
\* config-watch loop is back in its sleep unless shutdown is set.
C27_BankSwappedFirst ==
    /\ [](InReload =>
            /\ txlog # <<>>
            /\ bankItems = file.content.contents /\ cfg = file.content
            /\ C3_CursorValid)
    /\ [][TxFails =>
            /\ bankItems' = file.content.contents /\ C3_CursorValid'
            /\ \A t \in Loops : pc'[t] = "done" => (pc[t] = "done" \/ shutdown)
            /\ ~shutdown => pc'["cfgwatch"] = "sleep"
            /\ plock' = "none" /\ d_lock' # "cfgwatch"]_vars

\* A display restart failed in launch, after the bank had been given a
\* new sequence; the loops run on.
C27_Witness ==
    /\ ~InReload /\ ~synced /\ pc["cfgwatch"] = "sleep" /\ pc["main"] = "wait"
    /\ txlog = <<"close", "launch">> /\ txold # bankItems
    /\ bankItems = cfg.contents /\ pc["rotate"] = "dwell" /\ ~shutdown

SurfaceOps == {"launch", "ensure", "show", "reload", "close"}

\* Coroutine t is inside the body of a Surface operation: it called one,
\* is past the acquire of the lock where the operation takes it, and has
\* not returned.
InBody(t) == pc[t] \in SurfaceOps /\ op[t] # "lock"

\* A step in which the rotate loop gets into the body of show: it calls
\* show or is woken in its acquire, and is not queued after the step.
EntersShow ==
    /\ DwellEnd \/ BackoffEnd \/ TasksStart \/ LockAcquired("rotate")
    /\ pc'["rotate"] # "done" /\ op'["rotate"] # "lock"

\* A step in which the refresh loop gets into the body of reload.
EntersReload ==
    /\ RefreshWaitEnd \/ LockAcquired("refresh")
    /\ op'["refresh"] # "lock"

\* A step in which coroutine u gets into the body of a Surface operation
\* (a show or reload that finds nothing to do is over in the same step).
Enters(u) ==
    CASE u = "rotate" -> EntersShow
      [] u = "refresh" -> EntersReload
      [] OTHER -> ~InBody(u) /\ InBody(u)'

\* C28: at no moment are two coroutines inside the body of a Surface
\* operation (launch, ensure_pages, show, reload, close), and while one is
\* inside such a body no other coroutine gets into one, whatever the
\* interleaving of the loops and cleanup.
C28_SurfaceOpsSerialized ==
    /\ [](\A t, u \in Procs : (InBody(t) /\ InBody(u)) => t = u)
    /\ [][\A t, u \in Procs : (InBody(t) /\ u # t) => ~Enters(u)]_vars

\* C29: when a reload during a dwell removed the shown entry from the
\* playlist, so that the cursor fell back to 0, the next tick of the
\* rotate loop, taken after the reload returned, shows entry 0 of the new
\* playlist.
C29_FallbackShowsFirst ==
    [][(fellback /\ ~InReload /\ synced /\ ~shutdown /\ DwellEnd) =>
          ridx' = 0]_vars

\* C30: a loop that leaves its suspension point with the shutdown signal
\* set (the rotate and the refresh loop, whose waits the signal ends) ends
\* its task in that step: it calls no Surface operation and does not
\* change the bank.
C30_NoWorkAfterShutdown ==
    [][\A t \in Loops :
          (/\ released_by_shutdown(Cur, t)
           /\ AtAwait(t, SuspensionPoint[t], "idle")
           /\ pc'[t] # pc[t])
              => /\ pc'[t] = "done"
                 /\ UNCHANGED << bankItems, bankIndex >>]_vars

\* The latest reload transaction failed (load_config raised on the file
\* as it is, or a Surface operation raised) and the config-watch loop is
\* back in its sleep, the file not rewritten since.
ReloadFailed ==
    /\ pc["cfgwatch"] = "sleep" /\ pc["main"] = "wait" /\ ~InReload
    /\ "cfgwatch" \notin cancelReq /\ ~shutdown
    /\ file.mtime = last_mtime
    /\ \/ ~file.ok
       \/ txlog # <<>> /\ ~synced /\ cfg = file.content

\* The poll that ends the present sleep calls _reload_config.
NextPollReloads == watch_after_sleep(Cur) # config_watch_top(Cur)

\* C31 as stated: after a failed reload transaction the config-watch loop
\* attempts the reload again on its next poll although the file is
\* unchanged.
C31_FailedReloadRetried == ReloadFailed => NextPollReloads

\* C31 amended: a poll that finds a newer timestamp records it before the
\* transaction runs, whether that then fails or not, so after a failed
\* transaction the polls of the unchanged file do not attempt the reload
\* again; the loop goes on polling.
C31_FailedReloadNotRetried ==
    /\ [][(WatchSleepEnd /\ file.mtime > last_mtime) =>
            last_mtime' = file.mtime]_vars
    /\ [](ReloadFailed =>
            /\ ~NextPollReloads
            /\ AtAwait("cfgwatch", "sleep", "idle"))

\* A transaction on a readable file failed in the Surface, and the loop
\* polls the unchanged file.
C31_Witness == ReloadFailed /\ file.ok /\ txlog # <<>> /\ gen > 0

\* C32: after a reload transaction that restarted the Surface because the
\* display settings changed, and returned, the Display's screen, width,
\* height and rotation are those of the applied configuration.
C32_RestartAppliesSettings ==
    (/\ txprev # None /\ txprev # Some(cfg.display)
     /\ txlog = Restart /\ ~InReload /\ synced) =>
        d_settings = cfg.display

\* A step in which _reload_config replaces the bank.
BankReplaced == gen' = gen + 1

\* C33: in the rotate loop a dwell begins only when show returned
\* normally, next_index is called once and only when a dwell wait ends,
\* and so the cursor moves only there or in a reload: not when show
\* raises, and not when the back-off sleep ends.
C33_TickOrder ==
    /\ [][(pc["rotate"] # "dwell" /\ pc'["rotate"] = "dwell") =>
            /\ ShowOk \/ (d_pages = <<>> /\ pc["rotate"] \in
                                {"show", "backoff", "start"})
            /\ bankIndex' = bankIndex]_vars
    /\ [][DwellEnd =>
            /\ pc["rotate"] = "dwell"
            /\ bankIndex' = next_index(bankItems, bankIndex)
            /\ bankItems' = bankItems]_vars
    /\ [][(bankIndex' # bankIndex \/ bankItems' # bankItems) =>
            DwellEnd \/ BankReplaced]_vars
    /\ [][(ShowFail \/ BackoffEnd) => UNCHANGED << bankIndex, bankItems >>]_vars

\* With no reload so far, the rotate loop calls show for entry 1 after
\* the dwell on entry 0.
C33_Witness ==
    /\ gen = 0 /\ pc["rotate"] = "show" /\ op["rotate"] = "front"
    /\ bankIndex = 1 /\ ridx = 1 /\ front = 0

\* A poll that finds a newer timestamp and a file load_config fails on.
LoadFails ==
    WatchSleepEnd /\ file.mtime > last_mtime /\ ~file.ok

\* C34: when load_config fails at the start of a reload transaction, the
\* applied configuration, the bank's items and cursor and the Surface are
\* as before, Player._lock is free, and the config-watch loop goes on.
C34_FailedLoadChangesNothing ==
    [][LoadFails =>
          /\ UNCHANGED << cfg, bankItems, bankIndex, gen, urls, d_pages,
                          d_urls, d_context, d_browser, d_playwright,
                          d_lock, d_waiters, front, synced >>
          /\ plock' = "none"
          /\ pc'["cfgwatch"] = IF shutdown THEN "done" ELSE "sleep"
          /\ outcome'["cfgwatch"] # "raised"]_vars

\* A reload of a readable file ran and returned after a poll whose load
\* had failed.
C34_Witness ==
    /\ gen = 1 /\ writes = 2 /\ last_mtime = 3 /\ file.ok
    /\ synced /\ txlog # <<>> /\ ~InReload /\ pc["cfgwatch"] = "sleep"

\* Two item lists with the same keys, position by position.
SameKeys(a, b) ==
    Len(a) = Len(b) /\ \A i \in 1..Len(a) : Key(a[i]) = Key(b[i])

\* A step that is a call of set_items.
SetItemsCalled ==
    \E new \in SeqsUpTo(ItemUniverse, MaxLen) : BankSetItems(new)

\* C35: set_items with a list whose keys equal the present list's keys
\* position by position leaves the cursor where it was, also when two
\* entries of the list have the same key.
C35_SetItemsIdempotent ==
    [][(SetItemsCalled /\ SameKeys(bankItems, bankItems')) =>
          bankIndex' = bankIndex]_vars

\* The refresh loop task exists and has not ended.
RefreshRunning == "refresh" \in tasks /\ pc["refresh"] # "done"

\* C36: once a reload transaction has returned, the refresh loop runs
\* exactly when the applied configuration has a refresh interval.
C36_RefreshFollowsConfig ==
    (/\ gen > 0 /\ ~InReload /\ synced /\ pc["main"] = "wait"
     /\ ~shutdown /\ outcome["refresh"] # "raised") =>
        (RefreshRunning <=> cfg.refresh_interval # None)

\* The cursor as current() returns it.
CursorNow == current(Cur)

\* C37: a show that raises leaves the cursor where it is and leads to the
\* back-off; while the call and the back-off last only a replacement of
\* the bank moves the cursor; and the iteration after the back-off reads
\* the cursor again, so that it shows the index of the failed call.
C37_FailedShowRetried ==
    /\ [][ShowFail =>
            /\ pc'["rotate"] = "backoff"
            /\ UNCHANGED << bankIndex, bankItems, ridx >>]_vars
    /\ [][(pc["rotate"] \in {"show", "backoff"} /\ ~BankReplaced) =>
            UNCHANGED << bankIndex, bankItems >>]_vars
    /\ [][(BackoffEnd /\ ~shutdown) =>
            /\ ridx' = CursorNow
            /\ UNCHANGED << bankIndex, bankItems >>
            /\ pc'["rotate"] \in {"show", "dwell"}]_vars
    /\ [][(BackoffEnd /\ ~shutdown /\ ridx = CursorNow) => ridx' = ridx]_vars

\* A show of entry 1 raised, and the rotate loop is in its back-off with
\* the cursor still on entry 1.
C37_Witness ==
    /\ pc["rotate"] = "backoff" /\ ~shutdown
    /\ Len(bankItems) > 1 /\ bankIndex = 1 /\ ridx = 1

\* C38: no step of the refresh loop changes the bank's items or cursor,
\* the index and position of the rotate loop, the pages or the page in the
\* foreground; and the page it reloads is the one of the cursor it read.
C38_RefreshLeavesRotation ==
    /\ [][RefreshStep =>
            /\ UNCHANGED << bankItems, bankIndex, ridx, front, d_pages >>
            /\ pc'["rotate"] = pc["rotate"]
            /\ op'["rotate"] = op["rotate"]]_vars
    /\ [][(RefreshWaitEnd /\ pc'["refresh"] = "reload") =>
            fidx' = CursorNow]_vars
    /\ [][(fidx' # fidx /\ fidx' # 0) => RefreshWaitEnd]_vars

\* The refresh loop waits for page.reload of entry 1, the cursor's entry,
\* while the rotate loop dwells on it.
C38_Witness ==
    /\ pc["refresh"] = "reload" /\ op["refresh"] = "page_reload"
    /\ fidx = 1 /\ bankIndex = 1 /\ pc["rotate"] = "dwell"

\* The poll that loads a newer, well-formed file and starts the reload
\* transaction.
ReloadStarts == WatchSleepEnd /\ file.mtime > last_mtime /\ file.ok

\* Values diff could have returned.
DiffValues ==
    [removed : SUBSET (0 .. 1), added : SUBSET (0 .. 1),
     modified : SUBSET {<< 0, 0 >>, << 0, 1 >>}]

\* The state the transaction leaves at its first await, had diff
\* returned d.
ReloadGiven(d) ==
    reload_config_with([Cur EXCEPT !.last_mtime = file.mtime],
                       file.content, d)

\* C39: diff leaves the bank as it found it, so that set_items works on
\* the items and the cursor of before the reload; and whatever value diff
\* returns, the transaction takes the same step but for the value it keeps
\* for its log line, which no later step changes.
C39_DiffObservesOnly ==
    /\ [][ReloadStarts =>
            /\ tx_diff' = diff(bankItems, file.content.contents)
            /\ bankItems' = file.content.contents
            /\ bankIndex' =
                  set_items(bankItems, bankIndex, file.content.contents)]_vars
    /\ [][ReloadStarts =>
            \A d \in DiffValues :
                [ReloadGiven(d) EXCEPT !.tx_diff = tx_diff'] = Cur']_vars
    /\ [][tx_diff' # tx_diff => ReloadStarts]_vars

\* A reload transaction whose diff reported an added entry has returned.
C39_Witness ==
    /\ gen > 0 /\ ~InReload /\ synced /\ pc["cfgwatch"] = "sleep"
    /\ tx_diff.added # {} /\ txlog # << >>

\* A poll of the playlist that failed, or returned the set applied last.
PollChangesNothing ==
    \/ \E how \in {"status", "raise"} : PollUrlsFails(how)
    \/ PollUrlsOk(previous_urls)

\* C40: in the polling client a poll that fails or returns the set
\* applied last puts nothing on the queue and leaves previous_urls and
\* the browser alone; a url is put only while the polled set differs
\* from previous_urls; and the browser is opened anew only by the
\* display thread having taken urls from the queue.
C40_EnqueueOnlyOnChange ==
    /\ [][PollChangesNothing =>
            /\ UNCHANGED << url_queue, previous_urls, browser_process,
                            launches, disp_urls >>
            /\ poll_pc' = "sleep"]_vars
    /\ [][Len(url_queue') > Len(url_queue) =>
            /\ poll_pc = "put"
            /\ polled_urls # None
            /\ polled_urls[1] # previous_urls
            /\ url_queue' = Append(url_queue, url_queue'[Len(url_queue')])
            /\ url_queue'[Len(url_queue')] \in polled_urls[1]]_vars
    /\ [][(browser_process' # browser_process \/ launches' # launches) =>
            /\ QueueEmpty /\ disp_urls # << >>
            /\ browser_process' = Some(disp_urls)
            /\ launches' = launches + 1]_vars
    /\ [][(PollingThread /\ previous_urls' # previous_urls) =>
            /\ polled_urls' # None /\ previous_urls' = polled_urls'[1]
            /\ polled_urls'[1] # previous_urls
            /\ pending' = {}]_vars

\* After the browser was opened on a polled set, a poll returned the same
\* set again: nothing is queued and the thread sleeps.
C40_Witness ==
    /\ polls > 1 /\ launches = 1 /\ poll_pc = "sleep"
    /\ polled_urls = Some(previous_urls) /\ previous_urls # {}
    /\ url_queue = << >> /\ disp_urls = << >>
    /\ browser_process # None

====
